---- MODULE Spec2Model ----
(***************************************************************************)
(* State-machine model of the useWebRTC hook (src/hooks/useWebRTC.ts).     *)
(*                                                                         *)
(* One hook instance is modelled.  Its environment (the relay socket, the  *)
(* PeerJS endpoint, the browser's timers, React's commit of state and      *)
(* passive effects, the consumer of the hook) chooses which callback runs  *)
(* next and with which arguments.  Each callback of the source is one      *)
(* action; the helper functions of the source (cleanup, emitSignal, skip,  *)
(* setupCallHandlers, setupDataHandlers, initiateCall, connectSignaling)   *)
(* are operators from a state record to a state record so that a handler   *)
(* is the composition of the calls it makes.                               *)
(*                                                                         *)
(* status is the value last written by setStatus; statusRef is the mirror  *)
(* the callbacks read.  The mirror is written only by the passive effect   *)
(* of line 60, which React runs after it has committed the new status, so  *)
(* other callbacks may run between a setStatus and the refresh of the      *)
(* mirror.  What a handler starts (a timer of 100 ms, 5 s or 15 s, a socket *)
(* handshake, the media prompt, the endpoint's registration) outlasts that *)
(* commit: it is "fresh" until the mirror has caught up with the status    *)
(* that handler wrote, and only "ripe" ones may complete.                  *)
(*                                                                         *)
(* The transport (PeerJS) is opaque: a link that the hook closed or whose  *)
(* endpoint was destroyed delivers no further events.                      *)
(***************************************************************************)
EXTENDS Integers, Sequences, FiniteSets, TLC

\* ---------------------------------------------------------------- bounds
\* Open call and data-link objects that may exist at once.
MaxLinks == 3
\* Pending one-shot timers (re-announce, watchdog) that may exist at once.
MaxTimers == 2
\* Runs of the session effect (mount, then re-runs after a dependency change).
MaxRuns == 2

\* ------------------------------------------------------------ identities
\* Identities are JavaScript strings, held as sequences of UTF-16 code units.
IdA1 == <<97, 49>>
IdB == <<98>>
IdB2 == <<98, 50>>
Ids == {IdA1, IdB, IdB2}
\* session?.id may be absent; the empty string is falsy like undefined.
NoId == <<>>
\* The local identity is the middle one, so that it has a remote below it (IdA1)
\* and one above it that it is a proper prefix of (IdB2).
SessionIds == {IdB, NoId}

\* JavaScript's < on strings: code units compared left to right, a proper
\* prefix sorts before the longer string.
RECURSIVE StrLess(_, _)
StrLess(a, b) ==
  IF b = <<>> THEN FALSE
  ELSE IF a = <<>> THEN TRUE
  ELSE IF Head(a) < Head(b) THEN TRUE
  ELSE IF Head(a) > Head(b) THEN FALSE
  ELSE StrLess(Tail(a), Tail(b))

\* ---------------------------------------------------------------- status
WebRTCStatus == {"idle", "generating_id", "matching", "connecting", "connected",
                 "disconnected", "error", "signaling_offline", "reconnecting"}

\* Statuses an instance can declare in a presence message.
DeclaredStatus == {"matching", "connected"}
\* Relay messages: presence messages declaring `matching` from every sender
\* (the hook's own included); presence messages declaring another status and
\* messages of a foreign type ("other") from the hook itself and from the
\* identity above it; and a payload JSON.parse rejects.
Messages ==
  [type : {"client-announce", "client-ack"}, id : Ids, status : {"matching"}]
    \cup [type : {"client-announce", "client-ack"}, id : {IdB, IdB2},
          status : DeclaredStatus \ {"matching"}]
    \cup [type : {"other"}, id : {IdB, IdB2}, status : {"matching"}]
    \cup {[type |-> "malformed", id |-> NoId, status |-> ""]}
\* PeerJS error types; the first three are the ones line 258 recovers from.
PeerErrorTypes == {"peer-unavailable", "disconnected", "network", "browser-incompatible"}

\* The timers of the hook, and the completions it waits for: the socket's
\* open, getUserMedia's settling, the endpoint's open.
TimerKinds == {"announce", "watchdog", "reconnect", "heartbeat", "wsopen",
               "media", "peeropen"}
NoTimers == [k \in TimerKinds |-> 0]

\* A call or data-link object: the remote identity and who placed it.  NoLink
\* is null.
NoLink == [remote |-> NoId, dir |-> "none"]
Links == [remote : Ids, dir : {"in", "out"}]

VARIABLES
  sessionId,     \* session?.id of useSession()
  status,        \* useState status: the value last passed to setStatus
  statusRef,     \* statusRef.current
  remoteStream,  \* useState remoteStream: FALSE (null) or TRUE (a stream)
  localStream,   \* useState localStream: 0 (null) or the run that acquired it
  effectStream,  \* the localStream the current effect's closure captured
  streams,       \* per run, its media stream: "none", "pending", "live", "stopped",
                 \* "failed", or "orphan" (pending or settled after its run ended)
  callRef,       \* callRef.current: NoLink (null) or the call it holds
  connRef,       \* connRef.current: NoLink (null) or the data link it holds
  calls,         \* open calls with this hook's handlers that callRef lost: how many
  conns,         \* open data links with this hook's handlers that connRef lost
  peer,          \* peerRef.current: "none", "created", "open", "destroyed"
  ws,            \* wsRef.current: "none", "connecting", "open", "closing", "closed"
  isClosing,     \* isClosingRef.current
  mounted,       \* the mounted flag of the current effect run
  runs,          \* effect runs so far
  ripe,          \* timers that may fire
  fresh,         \* timers armed since the mirror last matched status
  out,           \* relay messages sent by the last callback
  ev             \* what the last callback handled, when it was a relay message
                 \* from the local identity or the close or error of the held
                 \* call; NoMsg otherwise

vars == <<sessionId, status, statusRef, remoteStream, localStream, effectStream,
          streams, callRef, connRef, calls, conns, peer, ws, isClosing, mounted,
          runs, ripe, fresh, out, ev>>

\* The values the hook's state (lines 45-58) and the effect's closure can hold.
TypeOK ==
  /\ sessionId \in SessionIds
  /\ status \in WebRTCStatus
  /\ statusRef \in WebRTCStatus
  /\ remoteStream \in BOOLEAN
  /\ localStream \in 0..MaxRuns
  /\ effectStream \in 0..MaxRuns
  /\ streams \in [1..MaxRuns -> {"none", "pending", "live", "stopped", "failed",
                                 "orphan"}]
  /\ callRef \in Links \cup {NoLink}
  /\ connRef \in Links \cup {NoLink}
  /\ calls \in 0..MaxLinks
  /\ conns \in 0..MaxLinks
  /\ peer \in {"none", "created", "open", "destroyed"}
  /\ ws \in {"none", "connecting", "open", "closing", "closed"}
  /\ isClosing \in BOOLEAN
  /\ mounted \in BOOLEAN
  /\ runs \in 0..MaxRuns
  /\ ripe \in [TimerKinds -> 0..MaxTimers]
  /\ fresh \in [TimerKinds -> 0..MaxTimers]

\* The mutable state as one record, with the outbox emptied for a new callback.
Cur ==
  [status |-> status, statusRef |-> statusRef, remoteStream |-> remoteStream,
   localStream |-> localStream, effectStream |-> effectStream, streams |-> streams,
   callRef |-> callRef, connRef |-> connRef, calls |-> calls, conns |-> conns,
   peer |-> peer, ws |-> ws, isClosing |-> isClosing, mounted |-> mounted,
   runs |-> runs, ripe |-> ripe, fresh |-> fresh, out |-> <<>>]

\* What the last callback was: a relay message that came back to its sender
\* (and which), the close or error of the held call, or another callback.
NoMsg == [type |-> "", id |-> NoId, status |-> ""]
Event(name) ==
  IF name \in {"held-call-close", "held-call-error"}
  THEN [type |-> name, id |-> NoId, status |-> ""]
  ELSE NoMsg

\* ------------------------------------------------------- source helpers
setStatus(s, v) == [s EXCEPT !.status = v]

setTimeout(s, kind) == [s EXCEPT !.fresh[kind] = @ + 1]

Held(ref) == IF ref = NoLink THEN 0 ELSE 1

\* The call and data-link objects that are open and carry the hook's handlers.
OpenCalls(s) == Held(s.callRef) + s.calls
OpenConns(s) == Held(s.connRef) + s.conns

\* cleanup without the data-link branch of lines 67-70.
cleanup_KeepsDataLink(s) ==
  [s EXCEPT !.callRef = NoLink, !.remoteStream = FALSE]

cleanup(s) ==
  [s EXCEPT !.callRef = NoLink, !.connRef = NoLink, !.remoteStream = FALSE]

\* peerRef.current?.id is set from construction until the endpoint is destroyed.
PeerId(s) == IF s.peer \in {"created", "open"} THEN sessionId ELSE NoId

emitSignal(s, type) ==
  IF s.ws = "open" /\ PeerId(s) # NoId
  THEN [s EXCEPT !.out = Append(@, [type |-> type, id |-> PeerId(s),
                                    status |-> s.statusRef])]
  ELSE s

skip(s) ==
  LET a == cleanup(s)
      b == IF a.statusRef # "error" /\ a.statusRef # "idle"
           THEN setStatus(a, "matching")
           ELSE a
  IN setTimeout(b, "announce")

\* callRef.current = call: the object it held stays open, with its handlers.
setupCallHandlers(s, call) ==
  [s EXCEPT !.callRef = call,
            !.calls = @ + Held(s.callRef)]

setupDataHandlers(s, conn) ==
  [s EXCEPT !.connRef = conn,
            !.conns = @ + Held(s.connRef)]

initiateCall(s, remoteId) ==
  IF s.statusRef # "matching" THEN s
  ELSE
    LET a == setStatus(s, "connecting")
        alive == a.peer \in {"created", "open"}
        b == IF alive
             THEN setupCallHandlers(a, [remote |-> remoteId, dir |-> "out"])
             ELSE a
        c == IF alive
             THEN setupDataHandlers(b, [remote |-> remoteId, dir |-> "out"])
             ELSE b
    IN setTimeout(c, "watchdog")

\* connectSignaling without the closing-flag check of line 148.
connectSignaling_NoClosingCheck(s) ==
  [s EXCEPT !.ws = "connecting", !.fresh["wsopen"] = 1, !.ripe["wsopen"] = 0]

connectSignaling(s) ==
  IF s.isClosing THEN s
  ELSE [s EXCEPT !.ws = "connecting", !.fresh["wsopen"] = 1, !.ripe["wsopen"] = 0]

\* --------------------------------------------------------- bookkeeping
\* Once the mirror matches the status again, every timer armed meanwhile is
\* older than the commit that made them match.
Settle(s) ==
  IF s.status = s.statusRef
  THEN [s EXCEPT !.ripe = [k \in TimerKinds |-> s.ripe[k] + s.fresh[k]],
                 !.fresh = NoTimers]
  ELSE s

Pending(s, k) == s.ripe[k] + s.fresh[k]

Bounded(s) ==
  /\ Pending(s, "announce") + Pending(s, "watchdog") <= MaxTimers
  /\ OpenCalls(s) + OpenConns(s) <= MaxLinks

\* The successor state of a callback.
Apply(s0, e) ==
  LET s == Settle(s0) IN
  /\ Bounded(s)
  /\ status' = s.status
  /\ statusRef' = s.statusRef
  /\ remoteStream' = s.remoteStream
  /\ localStream' = s.localStream
  /\ effectStream' = s.effectStream
  /\ streams' = s.streams
  /\ callRef' = s.callRef
  /\ connRef' = s.connRef
  /\ calls' = s.calls
  /\ conns' = s.conns
  /\ peer' = s.peer
  /\ ws' = s.ws
  /\ isClosing' = s.isClosing
  /\ mounted' = s.mounted
  /\ runs' = s.runs
  /\ ripe' = s.ripe
  /\ fresh' = s.fresh
  /\ out' = s.out
  /\ ev' = e
  /\ UNCHANGED sessionId


Init ==
  /\ sessionId \in SessionIds
  /\ status = "idle"
  /\ statusRef = "idle"
  /\ remoteStream = FALSE
  /\ localStream = 0
  /\ effectStream = 0
  /\ streams = [r \in 1..MaxRuns |-> "none"]
  /\ callRef = NoLink
  /\ connRef = NoLink
  /\ calls = 0
  /\ conns = 0
  /\ peer = "none"
  /\ ws = "none"
  /\ isClosing = FALSE
  /\ mounted = FALSE
  /\ runs = 0
  /\ ripe = NoTimers
  /\ fresh = NoTimers
  /\ out = <<>>
  /\ ev = NoMsg

\* --------------------------------------------------- the session effect
\* start(), up to its await (lines 209-217).
start(s) ==
  LET a == [s EXCEPT !.mounted = TRUE, !.runs = @ + 1, !.effectStream = s.localStream]
  IN IF sessionId = NoId THEN a
     ELSE [setStatus(a, "generating_id") EXCEPT !.streams[a.runs] = "pending",
                                             !.fresh["media"] = 1]

\* The effect's cleanup function (lines 273-281).  An acquisition still pending
\* belongs to a run that is over: whenever it settles, lines 219-222 stop its
\* tracks or line 264 skips the catch, and nothing of the hook's state changes.
teardown(s) ==
  LET o == [s EXCEPT !.streams = [r \in DOMAIN @ |->
                                   IF @[r] = "pending" THEN "orphan" ELSE @[r]],
                     !.ripe["media"] = 0, !.fresh["media"] = 0]
      a == cleanup([o EXCEPT !.mounted = FALSE, !.isClosing = TRUE])
      b == IF a.peer # "none"
           THEN [a EXCEPT !.peer = "destroyed", !.calls = 0, !.conns = 0,
                          !.ripe["peeropen"] = 0, !.fresh["peeropen"] = 0]
           ELSE a
      c == IF b.ws \in {"connecting", "open"}
           THEN [b EXCEPT !.ws = "closing", !.ripe["wsopen"] = 0, !.fresh["wsopen"] = 0]
           ELSE b
      d == [c EXCEPT !.ripe["heartbeat"] = 0, !.fresh["heartbeat"] = 0]
  IN IF d.effectStream # 0
     THEN [d EXCEPT !.streams[d.effectStream] = "stopped"]
     ELSE d

\* First run of the effect after the hook is mounted.
Start ==
  /\ runs = 0
  /\ Apply(start(Cur), Event("start"))

\* A dependency of the effect changed: React runs the old cleanup and the new
\* effect body back to back.
Rerun ==
  /\ mounted
  /\ runs < MaxRuns
  /\ Apply(start(teardown(Cur)), Event("rerun"))

Unmount ==
  /\ mounted
  /\ Apply(teardown(Cur), Event("unmount"))

\* getUserMedia of the current run resolves (lines 219-261).
GetUserMediaOk ==
  /\ ripe["media"] > 0
  /\ Apply([Cur EXCEPT !.streams[runs] = "live", !.localStream = runs,
                       !.peer = "created", !.ripe["media"] = 0,
                       !.fresh["peeropen"] = 1],
           Event("media-ok"))

\* The catch block that goes on to create the endpoint all the same.
onGetUserMediaFail_Proceeds(s) ==
  setStatus([s EXCEPT !.streams[s.runs] = "failed", !.peer = "created",
                      !.fresh["peeropen"] = 1],
            "error")

\* The catch block of lines 263-268, for the run that is still mounted.
onGetUserMediaFail(s) ==
  setStatus([s EXCEPT !.streams[s.runs] = "failed"], "error")

\* getUserMedia of the current run rejects.
GetUserMediaFail ==
  /\ ripe["media"] > 0
  /\ Apply(onGetUserMediaFail([Cur EXCEPT !.ripe["media"] = 0]), Event("media-fail"))

\* The passive effect of line 60.
StatusEffect ==
  /\ status # statusRef
  /\ Apply([Cur EXCEPT !.statusRef = status], Event("effect"))

\* ------------------------------------------------------ peer callbacks
onPeerOpen(s) ==
  IF s.mounted THEN connectSignaling(setStatus(s, "matching")) ELSE s

PeerOpen ==
  /\ ripe["peeropen"] > 0
  /\ Apply(onPeerOpen([Cur EXCEPT !.peer = "open", !.ripe["peeropen"] = 0]),
           Event("peer-open"))

onPeerCall(s, from) ==
  IF s.statusRef = "matching" \/ s.statusRef = "connecting"
  THEN setupCallHandlers(setStatus(s, "connecting"), [remote |-> from, dir |-> "in"])
  ELSE s

PeerCall(from) ==
  /\ peer = "open"
  /\ Apply(onPeerCall(Cur, from), Event("peer-call"))

onPeerConnection(s, from) ==
  setupDataHandlers(s, [remote |-> from, dir |-> "in"])

PeerConnection(from) ==
  /\ peer = "open"
  /\ Apply(onPeerConnection(Cur, from), Event("peer-connection"))

onPeerError(s, type) ==
  IF type \in {"peer-unavailable", "disconnected", "network"} THEN skip(s) ELSE s

PeerError(type) ==
  /\ peer \in {"created", "open"}
  /\ Apply(onPeerError(Cur, type), Event("peer-error"))

\* ------------------------------------------------- call and data links
\* An event names its object: the one the ref holds, or one of the others.
CallTargets == {h \in BOOLEAN : IF h THEN callRef # NoLink ELSE calls > 0}
ConnTargets == {h \in BOOLEAN : IF h THEN connRef # NoLink ELSE conns > 0}

\* The remote end closed the object: it is no longer open.
closedCall(s, held) ==
  IF held THEN [s EXCEPT !.callRef = NoLink] ELSE [s EXCEPT !.calls = @ - 1]

closedConn(s, held) ==
  IF held THEN [s EXCEPT !.connRef = NoLink] ELSE [s EXCEPT !.conns = @ - 1]

onCallStream(s) == setStatus([s EXCEPT !.remoteStream = TRUE], "connected")

CallStream(c) ==
  Apply(onCallStream(Cur), Event("call-stream"))

CallClose(c) ==
  Apply(skip(closedCall(Cur, c)), Event(IF c THEN "held-call-close" ELSE "call-close"))

CallError(c) ==
  Apply(skip(Cur), Event(IF c THEN "held-call-error" ELSE "call-error"))

ConnClose(c) ==
  Apply(skip(closedConn(Cur, c)), Event("conn-close"))

ConnError(c) ==
  Apply(skip(Cur), Event("conn-error"))

\* The consumer calls the skip the hook returns.
UserSkip ==
  /\ mounted
  /\ Apply(skip(Cur), Event("skip"))

\* --------------------------------------------------------------- timers
onWatchdog(s) == IF s.statusRef = "connecting" THEN skip(s) ELSE s

WatchdogFire ==
  /\ ripe["watchdog"] > 0
  /\ Apply(onWatchdog([Cur EXCEPT !.ripe["watchdog"] = @ - 1]),
           Event("watchdog"))

AnnounceFire ==
  /\ ripe["announce"] > 0
  /\ Apply(emitSignal([Cur EXCEPT !.ripe["announce"] = @ - 1], "client-announce"),
           Event("announce-timer"))

HeartbeatTick ==
  /\ ripe["heartbeat"] > 0
  /\ Apply(emitSignal(Cur, "client-announce"), Event("heartbeat"))

ReconnectFire ==
  /\ ripe["reconnect"] > 0
  /\ Apply(connectSignaling([Cur EXCEPT !.ripe["reconnect"] = @ - 1]),
           Event("reconnect"))

\* ---------------------------------------------------- relay callbacks
\* onopen without the status restore of line 159.
onWsOpen_NoRestore(s) ==
  LET b == emitSignal(s, "client-announce")
  IN [b EXCEPT !.ripe["heartbeat"] = 0, !.fresh["heartbeat"] = 1]

onWsOpen(s) ==
  LET a == IF s.statusRef = "signaling_offline" THEN setStatus(s, "matching") ELSE s
      b == emitSignal(a, "client-announce")
  IN [b EXCEPT !.ripe["heartbeat"] = 0, !.fresh["heartbeat"] = 1]

WsOpen ==
  /\ ws = "connecting"
  /\ ripe["wsopen"] > 0
  /\ Apply(onWsOpen([Cur EXCEPT !.ws = "open", !.ripe["wsopen"] = 0]),
           Event("ws-open"))

\* onmessage without the reflection filter of line 172.
onWsMessage_NoFilter(s, msg) ==
  IF msg.type = "malformed" THEN s
  ELSE IF msg.type \in {"client-announce", "client-ack"} /\ msg.status = "matching"
          /\ s.statusRef = "matching"
  THEN LET a == IF msg.type = "client-announce" THEN emitSignal(s, "client-ack")
                ELSE s
       IN IF StrLess(sessionId, msg.id) THEN initiateCall(a, msg.id) ELSE a
  ELSE s

\* myId is the id the endpoint reported when it opened: the session id.
onWsMessage(s, msg) ==
  IF msg.type = "malformed" THEN s
  ELSE IF msg.id = sessionId THEN s
  ELSE IF msg.type \in {"client-announce", "client-ack"} /\ msg.status = "matching"
          /\ s.statusRef = "matching"
  THEN LET a == IF msg.type = "client-announce" THEN emitSignal(s, "client-ack")
                ELSE s
       IN IF StrLess(sessionId, msg.id) THEN initiateCall(a, msg.id) ELSE a
  ELSE s

WsMessage(msg) ==
  /\ ws = "open"
  /\ Apply(onWsMessage(Cur, msg), IF msg.id = sessionId THEN msg ELSE NoMsg)

onWsClose(s) ==
  IF s.isClosing THEN s
  ELSE setTimeout(setStatus(s, "signaling_offline"), "reconnect")

WsClose ==
  /\ ws \in {"connecting", "open", "closing"}
  /\ Apply(onWsClose([Cur EXCEPT !.ws = "closed", !.ripe["wsopen"] = 0,
                                 !.fresh["wsopen"] = 0]),
           Event("ws-close"))

\* onerror that schedules the reconnect itself, besides closing the socket.
onWsError_Reconnects(s) ==
  setTimeout([s EXCEPT !.ws = "closing", !.ripe["wsopen"] = 0, !.fresh["wsopen"] = 0],
             "reconnect")

\* ws.onerror = () => ws.close(): the socket is closing, its close event follows.
onWsError(s) ==
  [s EXCEPT !.ws = "closing", !.ripe["wsopen"] = 0, !.fresh["wsopen"] = 0]

WsError ==
  /\ ws \in {"connecting", "open"}
  /\ Apply(onWsError(Cur), Event("ws-error"))

Next ==
  \/ Start
  \/ Rerun
  \/ Unmount
  \/ GetUserMediaOk
  \/ GetUserMediaFail
  \/ StatusEffect
  \/ PeerOpen
  \/ \E from \in Ids \ {sessionId} : PeerCall(from)
  \/ \E from \in Ids \ {sessionId} : PeerConnection(from)
  \/ \E type \in PeerErrorTypes : PeerError(type)
  \/ \E c \in CallTargets : CallStream(c)
  \/ \E c \in CallTargets : CallClose(c)
  \/ \E c \in CallTargets : CallError(c)
  \/ \E c \in ConnTargets : ConnClose(c)
  \/ \E c \in ConnTargets : ConnError(c)
  \/ UserSkip
  \/ WatchdogFire
  \/ AnnounceFire
  \/ HeartbeatTick
  \/ ReconnectFire
  \/ WsOpen
  \/ \E msg \in Messages : WsMessage(msg)
  \/ WsClose
  \/ WsError

Spec == Init /\ [][Next]_vars

\* ======================================================================
\* Properties
\* ======================================================================
Presence == {m \in Messages : m.type \in {"client-announce", "client-ack"}}

\* Calls the relay handler places when it is handed msg in the current state.
Placed(msg) == OpenCalls(onWsMessage(Cur, msg)) - OpenCalls(Cur)

\* C1: two identities in `matching` that see each other's presence message get
\* exactly one outbound call between them, placed by the lexicographically
\* lower one: a presence message (declared `matching`) of another identity that
\* arrives while the local status is `matching` makes the hook place a call iff
\* the local identity is the lower one, and once the hook holds its outbound
\* call to that identity a further presence message of it places no second one.
C1_ExactlyOneInitiator ==
  ws = "open" =>
    \A m \in Presence :
      (m.id # sessionId /\ m.status = "matching") =>
        /\ status = "matching" =>
             Placed(m) = (IF StrLess(sessionId, m.id) THEN 1 ELSE 0)
        /\ callRef = [remote |-> m.id, dir |-> "out"] => Placed(m) = 0
        /\ callRef.dir = "out" => StrLess(sessionId, callRef.remote)

\* C2: at most one call and at most one data link that was placed or accepted
\* and is not yet closed exist at any time.
C2_AtMostOneSession == OpenCalls(Cur) <= 1 /\ OpenConns(Cur) <= 1

\* C3: a presence message whose declared status is not `matching`, or that
\* arrives while the local status is not `matching`, changes nothing: no status
\* transition, no call or data link, no ack.
C3_PresenceGated ==
  ws = "open" =>
    \A m \in Presence :
      (m.status # "matching" \/ status # "matching") => onWsMessage(Cur, m) = Cur

\* C4: a relay message whose sender is the local identity changes no part of
\* the local state and makes the hook emit nothing, whatever its type and
\* declared status.
C4_ReflectionIgnored ==
  [][(ev' \in Messages /\ ev'.id = sessionId) =>
       /\ out' = <<>>
       /\ UNCHANGED <<status, statusRef, remoteStream, localStream, callRef, connRef,
                      calls, conns, peer, ws, isClosing, ripe, fresh>>]_vars

\* A reflected announce declaring `matching` was handled while the hook was
\* itself in `matching` with an open socket, and no ack went out.
C4_Witness ==
  /\ ev = [type |-> "client-announce", id |-> sessionId, status |-> "matching"]
  /\ status = "matching"
  /\ statusRef = "matching"
  /\ ws = "open"
  /\ out = <<>>

\* C5: skip is idempotent: with no call and no data link held it leaves status
\* `matching` unless status was `idle` or `error`, which it leaves untouched, and
\* a second skip right after the first changes neither status, handles nor
\* remote stream.
C5_SkipIdempotent ==
  mounted =>
    LET once == skip(Cur)
        twice == skip(once)
    IN /\ (callRef = NoLink /\ connRef = NoLink) =>
            once.status = (IF status \in {"idle", "error"} THEN status ELSE "matching")
       /\ twice.status = once.status
       /\ twice.callRef = once.callRef
       /\ twice.connRef = once.connRef
       /\ twice.remoteStream = once.remoteStream

\* C6: every stay in `connecting`, entered as initiator or as callee, has a
\* watchdog armed that will return the hook to `matching`.
C6_WatchdogArmed == status = "connecting" => Pending(Cur, "watchdog") > 0

\* C7: a relay socket that closes (not by teardown) while status is `matching`
\* puts status to `signaling_offline` and schedules the reconnect; the new
\* socket's open puts status back to `matching` and emits one announce that
\* carries the same local identity.
C7_RelayReconnect ==
  [][/\ (ws # "closed" /\ ws' = "closed" /\ ~isClosing /\ status = "matching") =>
          (status' = "signaling_offline"
             /\ Pending(Cur, "reconnect") = 0
             /\ ripe'["reconnect"] + fresh'["reconnect"] = 1)
     /\ (ws = "connecting" /\ ws' = "open" /\ status = "signaling_offline") =>
          (status' = "matching"
             /\ Len(out') = 1
             /\ out'[1].type = "client-announce"
             /\ out'[1].id = sessionId)]_vars

\* The reconnected socket has just opened: status is `matching` again (the
\* mirror still shows `signaling_offline`) and the announce went out.
C7_Witness ==
  /\ ws = "open"
  /\ status = "matching"
  /\ statusRef = "signaling_offline"
  /\ Len(out) = 1
  /\ out[1].type = "client-announce"
  /\ out[1].id = sessionId

\* C8: when the held call emits close or error while status is `connected`,
\* status becomes `matching`, the remote stream is cleared, both refs are
\* cleared and a re-announce timer is armed; when that timer fires with the
\* relay socket open an announce is emitted.
C8_CallClosed ==
  [][/\ (status = "connected"
          /\ ev'.type \in {"held-call-close", "held-call-error"}) =>
          (/\ status' = "matching"
           /\ remoteStream' = FALSE
           /\ callRef' = NoLink
           /\ connRef' = NoLink
           /\ ripe'["announce"] + fresh'["announce"] > Pending(Cur, "announce"))
     /\ (AnnounceFire /\ ws = "open") =>
          (/\ Len(out') = 1
           /\ out'[1].type = "client-announce"
           /\ out'[1].id = sessionId)]_vars

\* The close of the held call has just ended a `connected` session: the mirror
\* still shows `connected`, the refs and the remote stream are cleared and the
\* re-announce timer is armed.
C8_Witness ==
  /\ ev.type = "held-call-close"
  /\ status = "matching"
  /\ statusRef = "connected"
  /\ callRef = NoLink
  /\ connRef = NoLink
  /\ remoteStream = FALSE
  /\ fresh["announce"] > 0
  /\ ws = "open"

\* C9 as stated: once the media acquisition of a session start has failed,
\* no later state has a transport endpoint or an opening or open relay socket.
C9_NeverAfterFailure ==
  (\E r \in 1..runs : streams[r] = "failed") =>
    (peer \notin {"created", "open"} /\ ws \notin {"connecting", "open"})

\* C9, amended: when the media acquisition of a session start fails, status
\* becomes `error`, and until the session effect runs again the hook has no
\* live transport endpoint and no opening or open relay socket.
C9_MediaFailure ==
  /\ [](runs > 0 =>
          (streams[runs] = "failed" =>
             (peer \notin {"created", "open"} /\ ws \notin {"connecting", "open"})))
  /\ [][(runs > 0 /\ runs' = runs /\ streams[runs] = "pending"
          /\ streams'[runs] = "failed") => status' = "error"]_vars

\* The acquisition of the current start has failed: status is `error` and
\* there is neither endpoint nor socket.
C9_Witness ==
  /\ runs > 0
  /\ streams[runs] = "failed"
  /\ status = "error"
  /\ peer = "none"
  /\ ws = "none"

\* C10: status is `connected` only while a call is held and a remote stream is
\* present, and `matching` or `signaling_offline` only while no call is held and
\* there is no remote stream.
C10_StatusTruthful ==
  /\ status = "connected" => (callRef # NoLink /\ remoteStream)
  /\ status \in {"matching", "signaling_offline"} =>
       (callRef = NoLink /\ ~remoteStream)

\* C11: once the effect's cleanup has run (the hook is unmounted), no call or
\* data link is open or held, the endpoint is destroyed, the relay socket is
\* closing or closed, the heartbeat is cancelled and no acquired local media
\* stream still has live tracks.
C11_TeardownReleases ==
  (runs > 0 /\ ~mounted) =>
    /\ callRef = NoLink
    /\ connRef = NoLink
    /\ OpenCalls(Cur) = 0
    /\ OpenConns(Cur) = 0
    /\ peer \notin {"created", "open"}
    /\ ws \notin {"connecting", "open"}
    /\ Pending(Cur, "heartbeat") = 0
    /\ \A r \in 1..runs : streams[r] # "live"

\* C12: a relay socket is created only when no earlier one is opening, open or
\* closing: whenever a callback that creates one is pending (the reconnect
\* timer, or the endpoint's open in a live run) the socket held is absent or
\* closed, and at most one reconnect timer is pending.
C12_OneSocket ==
  /\ Pending(Cur, "reconnect") <= 1
  /\ (~isClosing /\ Pending(Cur, "reconnect") > 0) => ws \in {"none", "closed"}
  /\ (~isClosing /\ mounted /\ Pending(Cur, "peeropen") > 0) =>
       ws \in {"none", "closed"}

\* The reconnect timer of a closed socket has fired and created the next
\* socket, which is opening.
C12_Witness ==
  /\ ws = "connecting"
  /\ status = "signaling_offline"
  /\ statusRef = "signaling_offline"
  /\ Pending(Cur, "reconnect") = 0
  /\ ~isClosing

\* C13: an inbound call that arrives while the local status is `matching` or
\* `connecting` is answered, stored as the held call, and status becomes
\* `connecting`; one that arrives in any other status is closed at once, is not
\* stored and changes nothing.
C13_InboundCall ==
  peer = "open" =>
    \A from \in Ids \ {sessionId} :
      LET after == onPeerCall(Cur, from)
      IN IF status \in {"matching", "connecting"}
         THEN after.status = "connecting"
                /\ after.callRef = [remote |-> from, dir |-> "in"]
         ELSE after = Cur

\* C14: every close of the relay socket that is not due to teardown sets status
\* `signaling_offline` and arms a reconnect timer, and that timer creates a new
\* socket when it fires, any number of times; once teardown has set the
\* closing flag a close changes neither status nor timers, and no socket is
\* opening or open ever again, whichever timers were armed before.
C14_ReconnectForever ==
  [][/\ (ws # "closed" /\ ws' = "closed" /\ ~isClosing) =>
          (status' = "signaling_offline"
             /\ ripe'["reconnect"] + fresh'["reconnect"] = Pending(Cur, "reconnect") + 1)
     /\ (~isClosing /\ ReconnectFire) => ws' = "connecting"
     /\ (ws # "closed" /\ ws' = "closed" /\ isClosing) =>
          (status' = status
             /\ ripe'["reconnect"] + fresh'["reconnect"] = Pending(Cur, "reconnect"))
     /\ isClosing' => ws' \notin {"connecting", "open"}]_vars

\* A socket closed on its own, teardown ran, and the reconnect timer that the
\* close had armed has gone off without creating a socket.
C14_Witness ==
  /\ isClosing
  /\ ~mounted
  /\ ws = "closed"
  /\ status = "signaling_offline"
  /\ Pending(Cur, "reconnect") = 0

\* C15: presence messages (declared `matching`) of one partner that are handled
\* twice back to back, before any other callback runs, make the hook place at
\* most one call and one data link to that partner: the second delivery
\* places nothing.
C15_DuplicateDelivery ==
  (ws = "open" /\ status = "matching") =>
    \A m1, m2 \in Presence :
      (m1.id # sessionId /\ m2.id = m1.id /\ m1.status = "matching"
         /\ m2.status = "matching") =>
        LET once == onWsMessage(Cur, m1)
            twice == onWsMessage(once, m2)
        IN /\ OpenCalls(twice) - OpenCalls(Cur) <= 1
           /\ OpenConns(twice) - OpenConns(Cur) <= 1
           /\ OpenCalls(twice) = OpenCalls(once)
           /\ OpenConns(twice) = OpenConns(once)

\* C16: a presence message declares the status that is current when it is
\* emitted: the announce of the socket's open handler declares the status that
\* handler has just set, and the announce of a re-announce timer or of the
\* heartbeat declares the status of that moment.
C16_EmittedStatus ==
  /\ (ws = "connecting" /\ ripe["wsopen"] > 0) =>
       LET after == onWsOpen([Cur EXCEPT !.ws = "open"])
       IN \A i \in 1..Len(after.out) : after.out[i].status = after.status
  /\ (ripe["announce"] > 0 \/ ripe["heartbeat"] > 0) =>
       LET after == emitSignal(Cur, "client-announce")
       IN \A i \in 1..Len(after.out) : after.out[i].status = status

\* C17: an announce declaring `matching` from another identity that arrives
\* while the local status is `matching` is answered with exactly one ack,
\* whichever identity is lower; an ack is answered with no presence message.
C17_AckRule ==
  ws = "open" =>
    \A m \in Presence :
      (m.id # sessionId /\ m.status = "matching") =>
        LET sent == onWsMessage(Cur, m).out
        IN /\ (m.type = "client-announce" /\ status = "matching") =>
                (Len(sent) = 1 /\ sent[1].type = "client-ack")
           /\ m.type = "client-ack" => sent = <<>>

\* C18: whenever the endpoint of a live session start reports open, status
\* becomes `matching` and a relay socket is created, in the first start and in
\* every start that follows a teardown.
C18_OpenConnects ==
  (mounted /\ ripe["peeropen"] > 0) =>
    LET after == onPeerOpen([Cur EXCEPT !.peer = "open"])
    IN after.status = "matching" /\ after.ws = "connecting"

\* C19: the call and the data link that are held at the same time are bound to
\* the same remote identity, and an inbound data link from another identity
\* than the held call's partner does not become the held data link.
C19_SamePartner ==
  /\ (callRef # NoLink /\ connRef # NoLink) => callRef.remote = connRef.remote
  /\ (callRef # NoLink /\ peer = "open") =>
       \A from \in Ids \ {sessionId, callRef.remote} :
         onPeerConnection(Cur, from).connRef.remote # from

\* C20: a watchdog skips only the attempt that armed it: when a connection
\* attempt begins while a watchdog of an earlier attempt is still pending, that
\* watchdog, firing while the new attempt is in `connecting`, leaves the new
\* attempt's status and call alone.
C20_OwnWatchdogOnly ==
  [][(status # "connecting" /\ status' = "connecting"
        /\ Pending(Cur, "watchdog") > 0) =>
       LET attempt == [Cur EXCEPT !.status = "connecting", !.statusRef = "connecting",
                                  !.callRef = callRef', !.connRef = connRef']
           fired == onWatchdog(attempt)
       IN fired.status = "connecting" /\ fired.callRef = attempt.callRef]_vars

====
